---- MODULE Spec2Model ----
(***************************************************************************)
(* Model of the qRaman-Batt edge QC pipeline (src/src/edge/qc_pipeline.py):*)
(* classifier construction and dispatch, band metrics, the priority        *)
(* ordered label decision, the two-pass sample aggregation and the         *)
(* orchestrating loop of run_qc_on_spectrum.                               *)
(*                                                                         *)
(* Numbers.  Python floats are modelled in fixed point: an intensity, a    *)
(* confidence, a similarity, an SNR, an RMSE or a threshold x is the       *)
(* integer 100*x (hundredths); wavenumbers are whole cm^-1.  NaN is a      *)
(* distinguished value for which every ordered comparison is false, as in  *)
(* IEEE-754.  An optional value is None or Some(v).                        *)
(***************************************************************************)
EXTENDS Integers, Sequences, FiniteSets, TLC

VARIABLES
    lbl_in,        \* arguments of one make_band_label / reason-collection call
    lbl_out,       \* its result: label and band-level reasons
    agg_in,        \* list of BandResults handed to aggregate_sample
    agg_out,       \* the SampleResult it returns
    fit_in,        \* a band entry of a recipe file and a window to fit
    fit_out,       \* the BandConfig made from the entry, then its template and fit
    snr_in,        \* a window of intensities given to _compute_snr
    snr_out,       \* the terms of the SNR it returns
    ctor_args,     \* arguments (and import state) of the Classifier(...) call under way
    clf,           \* the Classifier object: method, model, client
    run_recipe,    \* RecipeConfig given to run_qc_on_spectrum
    nu,            \* wavenumber array of the spectrum
    intensity,     \* intensity array of the spectrum
    idx,           \* position of the comprehension over the recipe's bands
    run_bands,     \* BandResults built so far in the current run
    results,       \* SampleResults returned by the completed runs, in order
    sent,          \* requests received by the remote client, in order
    error,         \* the exception that left the last call, or NoExc
    failed,        \* number of run_qc_on_spectrum calls left through an exception
    pc             \* position of the caller

pipe_vars == <<ctor_args, clf, run_recipe, nu, intensity, idx, run_bands, results,
               sent, error, failed>>
pure_vars == <<lbl_in, lbl_out, agg_in, agg_out, fit_in, fit_out, snr_in, snr_out>>
vars == <<lbl_in, lbl_out, agg_in, agg_out, fit_in, fit_out, snr_in, snr_out, ctor_args, clf,
          run_recipe, nu, intensity,
          idx, run_bands, results, sent, error, failed, pc>>

----------------------------------------------------------------------------
(* Bounds of the model *)

MaxVal == 2          \* abstract metric values range over 0..MaxVal
MaxAggBands == 3     \* length of the band-result lists given to aggregate_sample
MaxBands == 2        \* number of bands of a recipe
MaxPoints == 3       \* number of points of a spectrum
MaxFailed == 1       \* failed spectra after which the caller submits another one
MaxHalf == 3         \* a fitted window has up to 2 * MaxHalf + 1 samples
MaxAmp == 2          \* synthetic peak amplitudes are 1.0 .. MaxAmp
MaxSnrLen == 5       \* number of samples of a window given to _compute_snr

----------------------------------------------------------------------------
(* Floats with NaN, None *)

NaN == 0 - 1000000
None == <<>>
Some(v) == <<v>>
ValueOf(o) == o[1]

IsNaN(x) == x = NaN

\* a variable that holds no object yet
NoCall == [op |-> "none"]

\* Python's a < b and a > b on floats: false as soon as one side is NaN
Lt(a, b) == ~IsNaN(a) /\ ~IsNaN(b) /\ a < b
Gt(a, b) == ~IsNaN(a) /\ ~IsNaN(b) /\ a > b
Ge(a, b) == ~IsNaN(a) /\ ~IsNaN(b) /\ a >= b
Le(a, b) == ~IsNaN(a) /\ ~IsNaN(b) /\ a <= b

\* abs(x); abs(nan) is nan
Abs(x) == IF IsNaN(x) THEN NaN ELSE IF x < 0 THEN 0 - x ELSE x

----------------------------------------------------------------------------
(* BandLabel, roles *)

PEAK_OK == "PEAK_OK"
PEAK_DRIFTED == "PEAK_DRIFTED"
NO_PEAK == "NO_PEAK"
BAD_QUALITY == "BAD_QUALITY"
OOD == "OOD"
MUST_NOT_HIT == "MUST_NOT_HIT"

BandLabel == {PEAK_OK, PEAK_DRIFTED, NO_PEAK, BAD_QUALITY, OOD, MUST_NOT_HIT}

Roles == {"must-have", "must-not", "anchor", "watch"}

\* band names; the k-th band of a generated recipe or result list is named BandNames[k]
BandNames == <<"A", "B", "C", "D", "E">>

----------------------------------------------------------------------------
(* make_band_label: metrics + thresholds -> BandLabel *)

\* a plausible slip: quality is tested before similarity
make_band_label_QualityFirst(band, recipe, delta_nu, snr, rmse, confidence, kappa) ==
    IF Lt(snr, recipe.snr_min) \/ Gt(rmse, recipe.epsilon) THEN BAD_QUALITY
    ELSE IF Lt(kappa, recipe.kappa_min) THEN OOD
    ELSE IF Lt(confidence, recipe.tau) THEN NO_PEAK
    ELSE IF band.role = "must-not" THEN MUST_NOT_HIT
    ELSE IF Gt(Abs(delta_nu), band.tol) THEN PEAK_DRIFTED ELSE PEAK_OK

\* a plausible slip: the override only replaces PEAK_OK
make_band_label_OverrideOkOnly(band, recipe, delta_nu, snr, rmse, confidence, kappa) ==
    IF Lt(kappa, recipe.kappa_min) THEN OOD
    ELSE IF Lt(snr, recipe.snr_min) \/ Gt(rmse, recipe.epsilon) THEN BAD_QUALITY
    ELSE IF Lt(confidence, recipe.tau) THEN NO_PEAK
    ELSE LET base == IF Gt(Abs(delta_nu), band.tol) THEN PEAK_DRIFTED ELSE PEAK_OK
         IN  IF band.role = "must-not" /\ base = PEAK_OK THEN MUST_NOT_HIT ELSE base

\* a plausible slip: the confidence test precedes the quality test
make_band_label_ConfFirst(band, recipe, delta_nu, snr, rmse, confidence, kappa) ==
    IF Lt(kappa, recipe.kappa_min) THEN OOD
    ELSE IF Lt(confidence, recipe.tau) THEN NO_PEAK
    ELSE IF Lt(snr, recipe.snr_min) \/ Gt(rmse, recipe.epsilon) THEN BAD_QUALITY
    ELSE LET base == IF Gt(Abs(delta_nu), band.tol) THEN PEAK_DRIFTED ELSE PEAK_OK
         IN  IF band.role = "must-not" /\ base \in {PEAK_OK, PEAK_DRIFTED}
             THEN MUST_NOT_HIT ELSE base

make_band_label(band, recipe, delta_nu, snr, rmse, confidence, kappa) ==
    \* 1) OOD dominates
    IF Lt(kappa, recipe.kappa_min) THEN OOD
    \* 2) bad signal quality
    ELSE IF Lt(snr, recipe.snr_min) \/ Gt(rmse, recipe.epsilon) THEN BAD_QUALITY
    \* 3) classifier says "no reliable peak"
    ELSE IF Lt(confidence, recipe.tau) THEN NO_PEAK
    \* 4) peak present but drifted
    ELSE LET base == IF Gt(Abs(delta_nu), band.tol) THEN PEAK_DRIFTED ELSE PEAK_OK
         \* 5) must-not override
         IN  IF band.role = "must-not" /\ base \in {PEAK_OK, PEAK_DRIFTED}
             THEN MUST_NOT_HIT ELSE base

----------------------------------------------------------------------------
(* Reason strings.  A formatted string is modelled by its parts: the fixed  *)
(* text (kind) and the interpolated values after formatting.                *)

\* f"{x:.1f}" on hundredths: one decimal is kept; nan prints as nan
Fmt1(x) == IF IsNaN(x) THEN NaN ELSE ((x + 5) \div 10) * 10
\* f"{x:.2f}" and f"{x:.3f}" keep every digit a value in hundredths has
Fmt2(x) == x

\* the parts a reader can find in a reason string
ReasonText(r) ==
    {r.kind} \cup (IF "name" \in DOMAIN r THEN {r.name} ELSE {})
             \cup (IF "label" \in DOMAIN r THEN {r.label} ELSE {})

Mentions(r, s) == s \in ReasonText(r)

\* a plausible slip: only the rule that decided the label is explained
BandReasons_DecidingOnly(band, recipe, delta_nu, snr, rmse, confidence, kappa, label) ==
    IF label = OOD
    THEN <<[kind |-> "kappa<", thr |-> Fmt2(recipe.kappa_min), got |-> Fmt2(kappa)]>>
    ELSE IF label = BAD_QUALITY
    THEN (IF Lt(snr, recipe.snr_min)
          THEN <<[kind |-> "SNR<", thr |-> Fmt1(recipe.snr_min), got |-> Fmt2(snr)]>>
          ELSE <<>>)
         \o (IF Gt(rmse, recipe.epsilon)
             THEN <<[kind |-> "RMSE>", thr |-> Fmt2(recipe.epsilon), got |-> Fmt2(rmse)]>>
             ELSE <<>>)
    ELSE IF label = NO_PEAK
    THEN <<[kind |-> "conf<", thr |-> Fmt2(recipe.tau), got |-> Fmt2(confidence)]>>
    ELSE IF label = PEAK_DRIFTED
    THEN <<[kind |-> "|dnu|>", thr |-> Fmt1(band.tol), got |-> Fmt2(delta_nu)]>>
    ELSE IF label = MUST_NOT_HIT
    THEN <<[kind |-> "must-not band appears as peak"]>>
    ELSE <<>>

\* evaluate_band, "Human-readable reasons"
BandReasons(band, recipe, delta_nu, snr, rmse, confidence, kappa, label) ==
    (IF Lt(kappa, recipe.kappa_min)
        THEN <<[kind |-> "kappa<", thr |-> Fmt2(recipe.kappa_min), got |-> Fmt2(kappa)]>>
        ELSE <<>>)
    \o (IF Lt(snr, recipe.snr_min)
        THEN <<[kind |-> "SNR<", thr |-> Fmt1(recipe.snr_min), got |-> Fmt2(snr)]>>
        ELSE <<>>)
    \o (IF Gt(rmse, recipe.epsilon)
        THEN <<[kind |-> "RMSE>", thr |-> Fmt2(recipe.epsilon), got |-> Fmt2(rmse)]>>
        ELSE <<>>)
    \o (IF ~IsNaN(delta_nu) /\ Gt(Abs(delta_nu), band.tol)
        THEN <<[kind |-> "|dnu|>", thr |-> Fmt1(band.tol), got |-> Fmt2(delta_nu)]>>
        ELSE <<>>)
    \o (IF Lt(confidence, recipe.tau)
        THEN <<[kind |-> "conf<", thr |-> Fmt2(recipe.tau), got |-> Fmt2(confidence)]>>
        ELSE <<>>)
    \o (IF label = MUST_NOT_HIT
        THEN <<[kind |-> "must-not band appears as peak"]>>
        ELSE <<>>)

----------------------------------------------------------------------------
(* aggregate_sample: band results -> GREEN / AMBER / RED with reasons *)

\* a plausible slip: a must-have band also fails hard on BAD_QUALITY
RedReasonsOf_BadQualityIsRed(br) ==
    (IF br.band.role = "must-not" /\ br.label = MUST_NOT_HIT
        THEN <<[kind |-> "must-not band hit", name |-> br.band.name]>>
        ELSE <<>>)
    \o (IF br.band.role = "must-have" /\ br.label \in {NO_PEAK, OOD, BAD_QUALITY}
        THEN <<[kind |-> "must-have band is", name |-> br.band.name, label |-> br.label]>>
        ELSE <<>>)

\* what the first loop appends for one band result
RedReasonsOf(br) ==
    (IF br.band.role = "must-not" /\ br.label = MUST_NOT_HIT
        THEN <<[kind |-> "must-not band hit", name |-> br.band.name]>>
        ELSE <<>>)
    \o (IF br.band.role = "must-have" /\ br.label \in {NO_PEAK, OOD}
        THEN <<[kind |-> "must-have band is", name |-> br.band.name, label |-> br.label]>>
        ELSE <<>>)

\* what the second loop appends for one band result
AmberReasonsOf(br) ==
    IF br.label \in {PEAK_DRIFTED, BAD_QUALITY, OOD}
    THEN <<[kind |-> "band is", name |-> br.band.name, label |-> br.label]>>
    ELSE <<>>

\* a plausible slip: the first loop stops at the first trigger
RECURSIVE RedPass_ShortCircuit(_, _, _)
RedPass_ShortCircuit(band_results, k, st) ==
    IF k > Len(band_results) \/ st.decision = "RED" THEN st
    ELSE LET add == RedReasonsOf(band_results[k])
         IN  RedPass_ShortCircuit(band_results, k + 1,
                     [decision |-> IF add # <<>> THEN "RED" ELSE st.decision,
                      reasons  |-> st.reasons \o add])

\* first loop (lines 544-557), from band k on; st = [decision, reasons]
RECURSIVE RedPass(_, _, _)
RedPass(band_results, k, st) ==
    IF k > Len(band_results) THEN st
    ELSE LET add == RedReasonsOf(band_results[k])
         IN  RedPass(band_results, k + 1,
                     [decision |-> IF add # <<>> THEN "RED" ELSE st.decision,
                      reasons  |-> st.reasons \o add])

\* second loop (lines 561-565), from band k on
RECURSIVE AmberPass(_, _, _)
AmberPass(band_results, k, st) ==
    IF k > Len(band_results) THEN st
    ELSE LET add == AmberReasonsOf(band_results[k])
         IN  AmberPass(band_results, k + 1,
                       [decision |-> IF add # <<>> THEN "AMBER" ELSE st.decision,
                        reasons  |-> st.reasons \o add])

\* a plausible slip: AMBER is decided but its reasons are only logged once
aggregate_sample_OneAmberReason(recipe, band_results) ==
    LET red == RedPass(band_results, 1, [decision |-> "GREEN", reasons |-> <<>>])
        amb == AmberPass(band_results, 1, red)
        fin == IF red.decision # "RED" THEN amb ELSE red
    IN  [recipe   |-> recipe,
         bands    |-> band_results,
         decision |-> fin.decision,
         reasons  |-> IF fin.decision = "AMBER" THEN <<fin.reasons[1]>> ELSE fin.reasons]

aggregate_sample(recipe, band_results) ==
    LET red == RedPass(band_results, 1, [decision |-> "GREEN", reasons |-> <<>>])
        fin == IF red.decision # "RED" THEN AmberPass(band_results, 1, red) ELSE red
    IN  [recipe   |-> recipe,
         bands    |-> band_results,
         decision |-> fin.decision,
         reasons  |-> fin.reasons]

----------------------------------------------------------------------------
(* numpy helpers on 1-D arrays (sequences of fixed-point values) *)

Max2(a, b) == IF a >= b THEN a ELSE b
Min2(a, b) == IF a <= b THEN a ELSE b

RECURSIVE SumSeq(_)
SumSeq(s) == IF s = <<>> THEN 0 ELSE Head(s) + SumSeq(Tail(s))

\* np.dot on equal-length vectors
Dot(a, b) == SumSeq([k \in DOMAIN a |-> a[k] * b[k]])

\* np.argmax: index (1-based here) of the first maximum
ArgMax(s) ==
    CHOOSE k \in DOMAIN s :
        /\ \A j \in DOMAIN s : s[j] <= s[k]
        /\ \A j \in DOMAIN s : j < k => s[j] < s[k]

\* insertion of x into the sorted sequence s
RECURSIVE InsertSorted(_, _)
InsertSorted(x, s) ==
    IF s = <<>> THEN <<x>>
    ELSE IF x <= Head(s) THEN <<x>> \o s
    ELSE <<Head(s)>> \o InsertSorted(x, Tail(s))

RECURSIVE SortArr(_)
SortArr(s) == IF s = <<>> THEN <<>> ELSE InsertSorted(Head(s), SortArr(Tail(s)))

\* np.median of a non-empty array: the middle element, or the mean of the two
\* middle elements (rounded down to the fixed-point grid)
Median(s) ==
    LET t == SortArr(s)
        n == Len(t)
    IN  IF n % 2 = 1 THEN t[(n + 1) \div 2]
        ELSE (t[n \div 2] + t[n \div 2 + 1]) \div 2

\* sqrt on the fixed-point grid: v is in 1e-4 units, the root in hundredths
RECURSIVE SqrtFrom(_, _)
SqrtFrom(v, r) == IF (r + 1) * (r + 1) > v THEN r ELSE SqrtFrom(v, r + 1)
Sqrt(v) == SqrtFrom(v, 0)

\* np.clip(x, lo, hi)
Clip(x, lo, hi) == IF IsNaN(x) THEN NaN ELSE Min2(Max2(x, lo), hi)

----------------------------------------------------------------------------
(* Helper functions: windows, metrics *)

\* indices of the points of the spectrum inside the band window, in order
RECURSIVE MaskIdx(_, _, _)
MaskIdx(nu_arr, band, k) ==
    IF k > Len(nu_arr) THEN <<>>
    ELSE (IF Ge(nu_arr[k], band.window_min) /\ Le(nu_arr[k], band.window_max)
          THEN <<k>> ELSE <<>>) \o MaskIdx(nu_arr, band, k + 1)

\* _extract_window: (nu[mask], intensity[mask])
extract_window(nu_arr, I_arr, band) ==
    LET mask == MaskIdx(nu_arr, band, 1)
    IN  [nu |-> [k \in DOMAIN mask |-> nu_arr[mask[k]]],
         I  |-> [k \in DOMAIN mask |-> I_arr[mask[k]]]]

\* a plausible slip: 0.0 instead of nan for an empty window
estimate_center_ZeroOnEmpty(w_nu, w_I) ==
    IF Len(w_nu) = 0 THEN 0 ELSE w_nu[ArgMax(w_I)]

\* _estimate_center: nu at the maximum intensity, nan for an empty window
estimate_center(w_nu, w_I) ==
    IF Len(w_nu) = 0 THEN NaN ELSE w_nu[ArgMax(w_I)]

\* 1.4826 * m on the fixed-point grid
MadScale(m) == (14826 * m) \div 10000

\* peak_height / 1e-9 exceeds every representable value of the grid: all such
\* quotients are represented by SnrHuge, larger than any threshold of a recipe
SnrHuge == 1000 * 1000 * 1000

\* _compute_snr up to the noise estimate, for a non-empty window: the peak height
\* above the median and the median absolute deviation of the noise sample
snr_terms(w_I) ==
    LET n == Len(w_I)
        median == Median(w_I)
        residual == [k \in 1 .. n |-> w_I[k] - median]
        peak_idx == ArgMax(residual)
        half_width == Max2(1, n \div 10)
        left == Max2(0, (peak_idx - 1) - half_width)
        right == Min2(n, (peak_idx - 1) + half_width + 1)
        cut == SubSeq(residual, 1, left) \o SubSeq(residual, right + 1, n)
        noise_residual ==
            IF Len(cut) < 3
            THEN LET m0 == Median(residual) IN [k \in 1 .. n |-> residual[k] - m0]
            ELSE cut
        nmed == Median(noise_residual)
    IN  [peak_height |-> residual[peak_idx],
         dev |-> Median([k \in DOMAIN noise_residual |-> Abs(noise_residual[k] - nmed)])]

\* 1e-9 when intensities are counted in units of 1e-10
TinyNoise == 10

\* 1.4826 * m, exactly, in 1/10000 of the unit of m
MadExact(m) == 14826 * m

\* a plausible slip: the noise scale is floored at 1e-9
noise_std_Floored(mad, tiny) == Max2(mad, tiny)

\* noise_std = float(mad) if mad > 0 else 1e-9   (tiny is 1e-9 in the unit of mad)
noise_std(mad, tiny) == IF mad > 0 THEN mad ELSE tiny

\* _compute_snr on a window counted in units of 1e-10, where 1e-9 is on the grid:
\* the returned SNR (in hundredths) with the peak height and the noise scale (in
\* 1/10000 of the unit) it is the quotient of
compute_snr_fine(w_I) ==
    IF Len(w_I) = 0 THEN [snr |-> 0, peak_height |-> 0, noise_std |-> None]
    ELSE LET t == snr_terms(w_I)
             ns == noise_std(MadExact(t.dev), 10000 * TinyNoise)
         IN  IF t.peak_height <= 0
             THEN [snr |-> 0, peak_height |-> t.peak_height, noise_std |-> None]
             ELSE [snr |-> (t.peak_height * 10000 * 100) \div ns,
                   peak_height |-> t.peak_height, noise_std |-> Some(ns)]

\* a plausible slip: nan instead of 0.0 for an empty window
compute_snr_NanOnEmpty(w_I) ==
    IF Len(w_I) = 0 THEN NaN
    ELSE LET t == snr_terms(w_I)
         IN  IF t.peak_height <= 0 THEN 0
             ELSE IF t.dev > 0 THEN (t.peak_height * 100) \div Max2(1, MadScale(t.dev))
             ELSE SnrHuge

\* _compute_snr
compute_snr(w_I) ==
    IF Len(w_I) = 0 THEN 0
    ELSE
    LET n == Len(w_I)
        median == Median(w_I)
        residual == [k \in 1 .. n |-> w_I[k] - median]
        peak_idx == ArgMax(residual)
        peak_height == residual[peak_idx]
        half_width == Max2(1, n \div 10)
        left == Max2(0, (peak_idx - 1) - half_width)
        right == Min2(n, (peak_idx - 1) + half_width + 1)
        cut == SubSeq(residual, 1, left) \o SubSeq(residual, right + 1, n)
        noise_residual ==
            IF Len(cut) < 3
            THEN LET m0 == Median(residual) IN [k \in 1 .. n |-> residual[k] - m0]
            ELSE cut
        nmed == Median(noise_residual)
        dev == Median([k \in DOMAIN noise_residual |-> Abs(noise_residual[k] - nmed)])
    IN  IF peak_height <= 0 THEN 0
        ELSE IF dev > 0 THEN (peak_height * 100) \div Max2(1, MadScale(dev))
        ELSE SnrHuge

----------------------------------------------------------------------------
(* Peak models.  A call that can raise returns [exc, val]: exc is NoExc and  *)
(* val the value, or exc names the exception.                                *)

NoExc == "no exception"
Ok(v) == [exc |-> NoExc, val |-> v]
Raise(e) == [exc |-> e, val |-> 0]

\* 100 * exp(-q / 8), rounded, for whole q; 0.002 and less rounds to 0
ExpNegEighths(q) ==
    CASE q = 0 -> 100 [] q = 1 -> 88 [] q = 2 -> 78 [] q = 3 -> 69 [] q = 4 -> 61
      [] q = 5 -> 54 [] q = 6 -> 47 [] q = 7 -> 42 [] q = 8 -> 37 [] q = 9 -> 32
      [] q \in 10 .. 11 -> 27 [] q \in 12 .. 13 -> 21 [] q \in 14 .. 15 -> 16
      [] q = 16 -> 14 [] q \in 17 .. 20 -> 10 [] q \in 21 .. 25 -> 5
      [] q \in 26 .. 31 -> 3 [] q \in 32 .. 42 -> 1 [] OTHER -> 0

\* _gaussian with amp = 1.0: exp(-0.5 * z * z), z = (x - center) / sigma
gaussian(x, center, sigma) ==
    IF sigma <= 0 THEN [k \in DOMAIN x |-> 0]
    ELSE [k \in DOMAIN x |->
            ExpNegEighths((4 * (x[k] - center) * (x[k] - center)) \div (sigma * sigma))]

\* _lorentzian with amp = 1.0: 1 / (1 + z * z)
lorentzian(x, center, gamma) ==
    IF gamma <= 0 THEN [k \in DOMAIN x |-> 0]
    ELSE [k \in DOMAIN x |->
            (100 * gamma * gamma) \div (gamma * gamma + (x[k] - center) * (x[k] - center))]

\* _pseudovoigt with amp = 1.0
pseudovoigt(x, center, sigma, eta) ==
    LET e == Clip(eta, 0, 100)
        g == gaussian(x, center, sigma)
        l == lorentzian(x, center, sigma)
    IN  [k \in DOMAIN x |-> (e * l[k] + (100 - e) * g[k]) \div 100]

\* _peak_template: unit-amplitude template for the band.  band.template is
\* None, or Some([type, data]) with type "list" or "ndarray"; a shape of None
\* is the string "None".
peak_template(x, band) ==
    IF band.shape = "gaussian" \/ band.shape = "None"
    THEN Ok(gaussian(x, band.center, band.sigma))
    ELSE IF band.shape = "pseudovoigt"
    THEN \* float(getattr(band, "eta", 0.5)): the attribute exists, None included
         IF band.eta = None THEN Raise("TypeError")
         ELSE Ok(pseudovoigt(x, band.center, band.sigma, ValueOf(band.eta)))
    ELSE IF band.shape = "template"
    THEN IF /\ band.template # None
            /\ ValueOf(band.template).type = "ndarray"
            /\ Len(ValueOf(band.template).data) = Len(x)
         THEN Ok(ValueOf(band.template).data)
         ELSE Ok(gaussian(x, band.center, band.sigma))
    ELSE Ok(gaussian(x, band.center, band.sigma))

\* sqrt(mean(r^2)) of a residual vector
Rms(r) == Sqrt(SumSeq([k \in DOMAIN r |-> r[k] * r[k]]) \div Len(r))

\* a plausible slip: only the upper limit is applied
clamp_amp_MaxOnly(amp_hat, fit_lims) ==
    IF fit_lims = None THEN amp_hat
    ELSE IF ValueOf(fit_lims).amp_max # None
         THEN Min2(amp_hat, ValueOf(ValueOf(fit_lims).amp_max)) ELSE amp_hat

\* amplitude limits of _compute_rmse (lines 403-407)
clamp_amp(amp_hat, fit_lims) ==
    IF fit_lims = None THEN amp_hat
    ELSE LET lims == ValueOf(fit_lims)
             a1 == IF lims.amp_min # None THEN Max2(amp_hat, ValueOf(lims.amp_min))
                   ELSE amp_hat
         IN  IF lims.amp_max # None THEN Min2(a1, ValueOf(lims.amp_max)) ELSE a1

\* _compute_rmse
compute_rmse(w_nu, w_I, band) ==
    IF Len(w_nu) = 0 \/ Len(w_I) = 0 THEN Ok(100)
    ELSE
    LET baseline == Median(w_I)
        y0 == [k \in DOMAIN w_I |-> w_I[k] - baseline]
        t == peak_template(w_nu, band)
        g == t.val
        norm_g2 == Dot(g, g)
        amp_hat == clamp_amp((Dot(g, y0) * 100) \div norm_g2, band.fit_lims)
        model == [k \in DOMAIN w_I |-> baseline + (amp_hat * g[k]) \div 100]
    IN  IF t.exc # NoExc THEN Raise(t.exc)
        ELSE IF norm_g2 = 0 THEN Ok(Rms(y0))
        ELSE Ok(Rms([k \in DOMAIN w_I |-> w_I[k] - model[k]]))

\* the amplitude _compute_rmse fits (lines 393-407); 0 when the template is
\* degenerate and no amplitude is fitted
fit_amplitude(w_nu, w_I, band) ==
    LET baseline == Median(w_I)
        y0 == [k \in DOMAIN w_I |-> w_I[k] - baseline]
        g == peak_template(w_nu, band).val
        norm_g2 == Dot(g, g)
    IN  IF norm_g2 = 0 THEN 0
        ELSE clamp_amp((Dot(g, y0) * 100) \div norm_g2, band.fit_lims)

----------------------------------------------------------------------------
(* Recipe loading: dict -> BandConfig (recipes.py) *)

\* str.replace("_", "-") on the role names of the model
ReplaceUnderscore(raw_role) ==
    CASE raw_role = "must_have" -> "must-have" [] raw_role = "must_not" -> "must-not"
      [] OTHER -> raw_role

\* str.lower() on the shape names of the model
LowerShape(raw_shape) ==
    CASE raw_shape = "Gaussian" -> "gaussian" [] raw_shape = "PseudoVoigt" -> "pseudovoigt"
      [] raw_shape = "Template" -> "template" [] OTHER -> raw_shape

\* _band_from_dict.  An absent key of the entry is None; entry.template is None or
\* Some([type, data]) with the type of the value found under the key.
band_from_dict(entry) ==
    LET raw_shape == LowerShape(IF entry.shape = None THEN "gaussian"
                                ELSE ValueOf(entry.shape))
    IN  [name |-> entry.name, center |-> entry.center, tol |-> entry.tol,
         sigma |-> entry.sigma, role |-> ReplaceUnderscore(entry.role),
         window_min |-> entry.window_range.min, window_max |-> entry.window_range.max,
         fit_lims |-> entry.fit_lims,
         shape |-> IF raw_shape \notin {"gaussian", "pseudovoigt", "template"}
                   THEN "gaussian" ELSE raw_shape,
         eta |-> entry.eta,
         template |-> IF entry.template # None /\ ValueOf(entry.template).type = "list"
                      THEN Some([type |-> "list", data |-> ValueOf(entry.template).data])
                      ELSE None]

\* BandConfig(**entry) written directly in Python: nothing is normalised; a shape
\* that is not given is the dataclass default
band_direct(entry) ==
    [name |-> entry.name, center |-> entry.center, tol |-> entry.tol,
     sigma |-> entry.sigma, role |-> entry.role,
     window_min |-> entry.window_range.min, window_max |-> entry.window_range.max,
     fit_lims |-> entry.fit_lims,
     shape |-> IF entry.shape = None THEN "gaussian" ELSE ValueOf(entry.shape),
     eta |-> entry.eta, template |-> entry.template]

----------------------------------------------------------------------------
(* Unified classifier abstraction *)

\* str.lower() on the method names of the model
Lower(method) ==
    CASE method = "DUMMY" -> "dummy" [] method = "RBF" -> "rbf"
      [] method = "QSVM" -> "qsvm" [] OTHER -> method

\* a plausible slip: the qsvm collaborators are only checked at prediction time
ClassifierInit_LateQsvmCheck(method, model, client, svc) ==
    LET self == [method |-> Lower(method), model |-> model, client |-> client]
    IN  IF self.method \notin {"dummy", "rbf", "qsvm"} THEN Raise("ValueError: method")
        ELSE IF self.method = "rbf" /\ self.model = None THEN Raise("ValueError: rbf model")
        ELSE IF self.method = "rbf" /\ svc = None THEN Raise("RuntimeError: scikit-learn")
        ELSE Ok(self)

\* Classifier.__init__; svc is the module global SVC (None when the import failed)
ClassifierInit(method, model, client, svc) ==
    LET self == [method |-> Lower(method), model |-> model, client |-> client]
    IN  IF self.method \notin {"dummy", "rbf", "qsvm"} THEN Raise("ValueError: method")
        ELSE IF self.method = "rbf" /\ self.model = None THEN Raise("ValueError: rbf model")
        ELSE IF self.method = "rbf" /\ svc = None THEN Raise("RuntimeError: scikit-learn")
        ELSE IF self.method = "qsvm" /\ (self.model = None \/ self.client = None)
             THEN Raise("ValueError: qsvm model and client")
        ELSE Ok(self)

\* the exceptions predict raises because of how the classifier is configured
ConfigErrors ==
    {"RuntimeError: unsupported method", "RuntimeError: RBF model is not set",
     "RuntimeError: QSVM backend requires both client and model"}

\* 100 / (1 + exp(-df / 100)), rounded, on decision margins in steps of 1.0
Logistic(df) ==
    CASE df <= 0 - 500 -> 1 [] df \in (0 - 499) .. (0 - 350) -> 2
      [] df \in (0 - 349) .. (0 - 250) -> 5 [] df \in (0 - 249) .. (0 - 150) -> 12
      [] df \in (0 - 149) .. (0 - 50) -> 27 [] df \in (0 - 49) .. 49 -> 50
      [] df \in 50 .. 149 -> 73 [] df \in 150 .. 249 -> 88 [] df \in 250 .. 349 -> 95
      [] df \in 350 .. 499 -> 98 [] OTHER -> 99

\* a prediction: the (confidence, kappa) pair or an exception, and the requests
\* sent to the remote client on the way
Predicted(confidence, kappa, reqs) ==
    [exc |-> NoExc, confidence |-> confidence, kappa |-> kappa, sent |-> reqs]
PredictRaised(e, reqs) == [exc |-> e, confidence |-> 0, kappa |-> 0, sent |-> reqs]

\* Classifier._predict_dummy
predict_dummy(features) ==
    IF Len(features) = 0 THEN Predicted(0, 0, <<>>)
    ELSE Predicted(Clip(features[ArgMax(features)], 0, 100), 100, <<>>)

\* Classifier._predict_rbf.  The model object is [api, out]: api is the query it
\* exposes and out what that query returns for the window.
predict_rbf(self, features) ==
    IF self.model = None THEN PredictRaised("RuntimeError: RBF model is not set", <<>>)
    ELSE LET model == ValueOf(self.model)
         IN  IF model.api = "predict_proba" THEN Predicted(model.out, 100, <<>>)
             ELSE IF model.api = "decision_function"
                  THEN Predicted(Logistic(model.out), 100, <<>>)
             ELSE PredictRaised("AttributeError", <<>>)

\* ndarray.tolist(): the same numbers, as a list
tolist(a) == [kind |-> "list", data |-> a]

\* client.predict(payload).  The client object is [resp]: resp[band name] is how
\* the remote side treats a request about that band: [kind |-> "raise"], a
\* [kind |-> "dict", confidence |-> .., kappa |-> optional] answer, or
\* [kind |-> "raise_if_dark"]: the request is rejected when it carries no non-zero
\* feature and answered with a confidence and no kappa otherwise.
client_predict(client, payload) ==
    LET r == client.resp[payload.band]
    IN  IF r.kind = "raise_if_dark"
        THEN IF \A k \in DOMAIN payload.features.data : payload.features.data[k] = 0
             THEN [kind |-> "raise"]
             ELSE [kind |-> "dict", confidence |-> 90, kappa |-> None]
        ELSE r

\* a plausible slip: a failed remote call is repeated once before giving up
predict_qsvm_RetryOnce(self, features, band) ==
    LET payload == [model_id |-> ValueOf(self.model), band |-> band.name,
                    features |-> tolist(features)]
        resp == client_predict(ValueOf(self.client), payload)
    IN  IF resp.kind = "raise" THEN PredictRaised("RemoteBackendError", <<payload, payload>>)
        ELSE Predicted(resp.confidence,
                       IF resp.kappa = None THEN 100 ELSE ValueOf(resp.kappa),
                       <<payload>>)

\* a plausible slip: the remote answer is clipped to [0, 1] like the dummy one
predict_qsvm_Clamped(self, features, band) ==
    LET payload == [model_id |-> ValueOf(self.model), band |-> band.name,
                    features |-> tolist(features)]
        resp == client_predict(ValueOf(self.client), payload)
    IN  IF resp.kind = "raise" THEN PredictRaised("RemoteBackendError", <<payload>>)
        ELSE Predicted(Clip(resp.confidence, 0, 100),
                       IF resp.kappa = None THEN 100 ELSE Clip(ValueOf(resp.kappa), 0, 100),
                       <<payload>>)

\* Classifier._predict_qsvm
predict_qsvm(self, features, band) ==
    IF self.client = None \/ self.model = None
    THEN PredictRaised("RuntimeError: QSVM backend requires both client and model", <<>>)
    ELSE LET payload == [model_id |-> ValueOf(self.model), band |-> band.name,
                         features |-> tolist(features)]
             resp == client_predict(ValueOf(self.client), payload)
         IN  IF resp.kind = "raise" THEN PredictRaised("RemoteBackendError", <<payload>>)
             ELSE Predicted(resp.confidence,
                            IF resp.kappa = None THEN 100 ELSE ValueOf(resp.kappa),
                            <<payload>>)

\* Classifier.predict
predict(self, features, band) ==
    IF self.method = "dummy" THEN predict_dummy(features)
    ELSE IF self.method = "rbf" THEN predict_rbf(self, features)
    ELSE IF self.method = "qsvm" THEN predict_qsvm(self, features, band)
    ELSE PredictRaised("RuntimeError: unsupported method", <<>>)

----------------------------------------------------------------------------
(* Band evaluation *)

\* evaluate_band: [exc, val, sent]; val is the BandResult when exc is NoExc
evaluate_band(nu_arr, I_arr, band, recipe, classifier) ==
    LET w == extract_window(nu_arr, I_arr, band)
        center_obs == estimate_center(w.nu, w.I)
        delta_nu == IF ~IsNaN(center_obs) THEN center_obs - band.center ELSE NaN
        snr == compute_snr(w.I)
        rmse == compute_rmse(w.nu, w.I, band)
        features == w.I
        p == predict(classifier, features, band)
        metrics == [center_obs |-> center_obs, delta_nu |-> delta_nu, snr |-> snr,
                    rmse |-> rmse.val, confidence |-> p.confidence, kappa |-> p.kappa]
        label == make_band_label(band, recipe, delta_nu, snr, rmse.val,
                                 p.confidence, p.kappa)
        reasons == BandReasons(band, recipe, delta_nu, snr, rmse.val,
                               p.confidence, p.kappa, label)
    IN  IF rmse.exc # NoExc THEN [exc |-> rmse.exc, val |-> NoCall, sent |-> <<>>]
        ELSE IF p.exc # NoExc THEN [exc |-> p.exc, val |-> NoCall, sent |-> p.sent]
        ELSE [exc |-> NoExc,
              val |-> [band |-> band, label |-> label, metrics |-> metrics,
                       reasons |-> reasons],
              sent |-> p.sent]

----------------------------------------------------------------------------
(* Inputs of the pipeline *)

\* the spectrum is sampled at 1.00, 2.00, ... cm^-1
NuGrid == [k \in 1 .. MaxPoints |-> 100 * k]

\* a weak peak (0.4) at point j of an otherwise dark spectrum
WeakPeakAt(j) == [k \in 1 .. MaxPoints |-> IF k = j THEN 40 ELSE 0]

\* every spectrum of intensities 0.0 and 1.0, and weak peaks at the first two points
Spectra == [1 .. MaxPoints -> {0, 100}] \cup {WeakPeakAt(1), WeakPeakAt(2)}

\* center, tolerance, width and window of a band: a window over the first three
\* points of the grid, and a window beyond the grid (no point falls into it)
Geometries ==
    {[center |-> 200, tol |-> 50, sigma |-> 100, window_min |-> 100, window_max |-> 300],
     [center |-> 1150, tol |-> 50, sigma |-> 100, window_min |-> 1100, window_max |-> 1200]}

InGrid == CHOOSE g \in Geometries : g.window_min = 100

\* shape, eta, template and fit limits of a band
Gaussian == [shape |-> "gaussian", eta |-> None, template |-> None, fit_lims |-> None]
PseudoVoigtNoEta ==
    [shape |-> "pseudovoigt", eta |-> None, template |-> None, fit_lims |-> None]

OffGrid == CHOOSE g \in Geometries : g.window_min # 100

PipeRoles == {"must-have", "must-not", "watch"}

BandConfig(name, role, geo, sh) ==
    [name |-> name, center |-> geo.center, tol |-> geo.tol, sigma |-> geo.sigma,
     role |-> role, window_min |-> geo.window_min, window_max |-> geo.window_max,
     fit_lims |-> sh.fit_lims, shape |-> sh.shape, eta |-> sh.eta,
     template |-> sh.template]

BandChoices ==
    [role : PipeRoles, geo : Geometries, sh : {Gaussian}]
    \cup [role : {"watch"}, geo : {InGrid}, sh : {PseudoVoigtNoEta}]
    \cup [role : {"must-have"}, geo : {OffGrid}, sh : {PseudoVoigtNoEta}]

\* thresholds of the test recipes: epsilon 0.5, tau 0.5, kappa_min 0.8, snr_min 1.0
RecipeConfig(bands) ==
    [recipe_name |-> "test_recipe", bands |-> bands,
     epsilon |-> 50, tau |-> 50, kappa_min |-> 80, snr_min |-> 100]

\* a recipe: the k-th band is named BandNames[k]
RecipeOf(c) ==
    RecipeConfig([k \in DOMAIN c |->
                     BandConfig(BandNames[k], c[k].role, c[k].geo, c[k].sh)])

\* answers of a remote client
Responses ==
    {[kind |-> "raise"],
     [kind |-> "raise_if_dark"],
     [kind |-> "dict", confidence |-> 150, kappa |-> Some(0 - 20)],
     [kind |-> "dict", confidence |-> 90, kappa |-> None]}

\* a client answers per band name, as the tests' FakeQsvmClient does; bands it has
\* no entry for get its default answer
DefaultResponse == [kind |-> "dict", confidence |-> 0, kappa |-> Some(100)]

ClientTable(f) ==
    [resp |-> [n \in {BandNames[k] : k \in DOMAIN BandNames} |->
                  IF n \in DOMAIN f THEN f[n] ELSE DefaultResponse]]

Clients == {ClientTable(f) : f \in [{"A", "B"} -> Responses]}

RbfModels ==
    {[api |-> "predict_proba", out |-> 20],
     [api |-> "decision_function", out |-> 0],
     [api |-> "neither", out |-> 0]}

QsvmModel == [api |-> "model id", out |-> 0]

AClient == ClientTable([n \in {} |-> DefaultResponse])

\* Classifier(...) calls: every method name with and without each collaborator and
\* runtime support, every rbf model, every client behaviour
CtorCalls ==
    ([method : {"dummy"}, model : {None}, client : {None}, svc : {None, Some("SVC")}])
    \cup
    ([method : {"rbf", "RBF", "qsvm", "svm"}, model : {None, Some(QsvmModel)},
      client : {None, Some(AClient)}, svc : {None, Some("SVC")}])
    \cup
    ([method : {"rbf"}, model : {Some(m) : m \in RbfModels}, client : {None},
      svc : {None, Some("SVC")}])
    \cup
    ([method : {"qsvm"}, model : {Some(QsvmModel)}, client : {Some(c) : c \in Clients},
      svc : {Some("SVC")}])

----------------------------------------------------------------------------
(* Specification Spec: a Classifier is constructed, then run_qc_on_spectrum  *)
(* is called on a recipe and a spectrum, and called again on the same        *)
(* arguments.                                                                *)

PureIdle ==
    /\ lbl_in = NoCall
    /\ lbl_out = NoCall
    /\ agg_in = <<>>
    /\ agg_out = NoCall
    /\ fit_in = NoCall
    /\ fit_out = NoCall
    /\ snr_in = NoCall
    /\ snr_out = NoCall

PipeIdle ==
    /\ ctor_args = NoCall
    /\ clf = NoCall
    /\ run_recipe = NoCall
    /\ nu = <<>>
    /\ intensity = <<>>
    /\ idx = 0
    /\ run_bands = <<>>
    /\ results = <<>>
    /\ sent = <<>>
    /\ error = NoExc
    /\ failed = 0

Init ==
    /\ PureIdle
    /\ PipeIdle
    /\ pc = "construct"

\* clf = Classifier(method, model, client)
Construct ==
    /\ pc = "construct"
    /\ \E a \in CtorCalls :
          LET r == ClassifierInit(a.method, a.model, a.client, a.svc)
          IN  /\ ctor_args' = a
              /\ IF r.exc = NoExc
                 THEN clf' = r.val /\ error' = NoExc /\ pc' = "ready"
                 ELSE clf' = NoCall /\ error' = r.exc /\ pc' = "ctor_failed"
    /\ UNCHANGED <<run_recipe, nu, intensity, idx, run_bands, results, sent, failed>>
    /\ UNCHANGED pure_vars

\* a plausible slip: results are gathered newest first
collect_Front(brs, br) == <<br>> \o brs

\* the list comprehension of run_qc_on_spectrum adds one BandResult
collect(brs, br) == Append(brs, br)

\* a plausible slip: the baseline is removed in place, in the caller's array
array_after_evaluate_InPlace(I_arr, band) ==
    IF Len(I_arr) = 0 THEN I_arr
    ELSE LET m == Median(I_arr) IN [k \in DOMAIN I_arr |-> I_arr[k] - m]

\* what evaluate_band leaves in the caller's intensity array: mask indexing and
\* astype copy, nothing is written back
array_after_evaluate(I_arr, band) == I_arr

\* a plausible slip: a failed remote call makes the classifier drop its client
classifier_after_evaluate_DropClient(self, r) ==
    IF r.exc = "RemoteBackendError" THEN [self EXCEPT !.client = None] ELSE self

\* what evaluate_band and Classifier.predict leave in the classifier object: no
\* method of the class assigns an attribute after __init__
classifier_after_evaluate(self, r) == self

\* run_qc_on_spectrum(nu, intensity, recipe, clf) is entered: first call
StartRun ==
    /\ pc = "ready"
    /\ \E n \in 0 .. MaxBands, y \in Spectra :
       \E c \in [1 .. n -> BandChoices] :
          /\ run_recipe' = RecipeOf(c)
          /\ nu' = NuGrid
          /\ intensity' = y
    /\ ctor_args' = NoCall
    /\ idx' = 1
    /\ run_bands' = <<>>
    /\ pc' = "loop"
    /\ UNCHANGED <<clf, results, sent, error, failed>>
    /\ UNCHANGED pure_vars

\* evaluate_band(nu_arr, I_arr, band, recipe, classifier) for the next band
EvaluateBand ==
    /\ pc = "loop"
    /\ idx <= Len(run_recipe.bands)
    /\ \E band \in {run_recipe.bands[idx]} :
       \E r \in {evaluate_band(nu, intensity, band, run_recipe, clf)} :
           /\ sent' = sent \o r.sent
           /\ intensity' = array_after_evaluate(intensity, band)
           /\ clf' = classifier_after_evaluate(clf, r)
           /\ IF r.exc = NoExc
              THEN /\ run_bands' = collect(run_bands, r.val)
                   /\ idx' = idx + 1
                   /\ UNCHANGED <<error, failed, pc>>
              ELSE /\ error' = r.exc
                   /\ failed' = failed + 1
                   /\ pc' = "raised"
                   /\ UNCHANGED <<run_bands, idx>>
    /\ UNCHANGED <<ctor_args, run_recipe, nu, results>>
    /\ UNCHANGED pure_vars

\* return aggregate_sample(recipe, band_results)
Aggregate ==
    /\ pc = "loop"
    /\ idx > Len(run_recipe.bands)
    /\ results' = Append(results, aggregate_sample(run_recipe, run_bands))
    /\ pc' = "returned"
    /\ UNCHANGED <<ctor_args, clf, run_recipe, nu, intensity, idx, run_bands, sent, error,
                   failed>>
    /\ UNCHANGED pure_vars

\* the caller runs the same spectrum, recipe and classifier again
RunAgain ==
    /\ pc = "returned"
    /\ Len(results) < 2
    /\ idx' = 1
    /\ run_bands' = <<>>
    /\ pc' = "loop"
    /\ UNCHANGED <<ctor_args, clf, run_recipe, nu, intensity, results, sent, error,
                   failed>>
    /\ UNCHANGED pure_vars

\* after a spectrum whose processing raised, the caller submits the next spectrum
\* with the same recipe and classifier
NextSpectrum ==
    /\ pc = "raised"
    /\ failed <= MaxFailed
    /\ \E y \in Spectra : intensity' = y
    /\ idx' = 1
    /\ run_bands' = <<>>
    /\ error' = NoExc
    /\ pc' = "loop"
    /\ UNCHANGED <<ctor_args, clf, run_recipe, nu, results, sent, failed>>
    /\ UNCHANGED pure_vars

Next == Construct \/ StartRun \/ EvaluateBand \/ Aggregate \/ RunAgain \/ NextSpectrum

Spec == Init /\ [][Next]_vars

----------------------------------------------------------------------------
(* Specification SpecLabel: make_band_label and the reason collection of    *)
(* evaluate_band applied to metrics drawn from a small grid around the      *)
(* thresholds, NaN included.                                                *)

MetricVals(maxval) == (0 .. maxval) \cup {NaN}
OffsetVals(maxval) == ((0 - maxval) .. maxval) \cup {NaN}

LabelInputs(maxval) ==
    [role : Roles, tol : {1},
     kappa_min : {1}, snr_min : {0, 1}, epsilon : {1}, tau : {1},
     delta_nu : OffsetVals(maxval), snr : MetricVals(maxval), rmse : MetricVals(maxval),
     confidence : MetricVals(maxval), kappa : MetricVals(maxval)]

LabelBand(a) == [name |-> "A", role |-> a.role, tol |-> a.tol]
LabelRecipe(a) ==
    [kappa_min |-> a.kappa_min, snr_min |-> a.snr_min,
     epsilon |-> a.epsilon, tau |-> a.tau]

InitLabel ==
    /\ lbl_in \in LabelInputs(MaxVal)
    /\ lbl_out = NoCall
    /\ agg_in = <<>>
    /\ agg_out = NoCall
    /\ fit_in = NoCall
    /\ fit_out = NoCall
    /\ snr_in = NoCall
    /\ snr_out = NoCall
    /\ PipeIdle
    /\ pc = "call"

\* label = make_band_label(...); reasons = [...]   (evaluate_band, lines 503-526)
LabelBandCall ==
    /\ pc = "call"
    /\ LET a == lbl_in
           label == make_band_label(LabelBand(a), LabelRecipe(a), a.delta_nu,
                                    a.snr, a.rmse, a.confidence, a.kappa)
       IN  lbl_out' = [op |-> "label", label |-> label,
                       reasons |-> BandReasons(LabelBand(a), LabelRecipe(a), a.delta_nu,
                                               a.snr, a.rmse, a.confidence, a.kappa, label)]
    /\ pc' = "done"
    /\ UNCHANGED <<lbl_in, agg_in, agg_out, fit_in, fit_out, snr_in, snr_out>>
    /\ UNCHANGED pipe_vars

NextLabel == LabelBandCall

SpecLabel == InitLabel /\ [][NextLabel]_vars

----------------------------------------------------------------------------
(* Specification SpecAgg: aggregate_sample applied to every list of band    *)
(* results of bounded length.                                               *)

\* a list of band results: the k-th is for the band named BandNames[k]
AggBandResults(rl) ==
    [k \in DOMAIN rl |-> [band  |-> [name |-> BandNames[k], role |-> rl[k].role],
                          label |-> rl[k].label]]

AggRecipe == [recipe_name |-> "test_recipe"]

InitAgg ==
    /\ \E n \in 0 .. MaxAggBands :
          \E rl \in [1 .. n -> [role : Roles, label : BandLabel]] :
              agg_in = AggBandResults(rl)
    /\ agg_out = NoCall
    /\ lbl_in = NoCall
    /\ lbl_out = NoCall
    /\ fit_in = NoCall
    /\ fit_out = NoCall
    /\ snr_in = NoCall
    /\ snr_out = NoCall
    /\ PipeIdle
    /\ pc = "call"

AggregateCall ==
    /\ pc = "call"
    /\ agg_out' = aggregate_sample(AggRecipe, agg_in)
    /\ pc' = "done"
    /\ UNCHANGED <<lbl_in, lbl_out, agg_in, fit_in, fit_out, snr_in, snr_out>>
    /\ UNCHANGED pipe_vars

NextAgg == AggregateCall

SpecAgg == InitAgg /\ [][NextAgg]_vars

----------------------------------------------------------------------------
(* Specification SpecBand: a band entry is turned into a BandConfig, by       *)
(* load_recipe or directly, and fitted to a noiseless synthetic window        *)
(* baseline + amp * gaussian(center, sigma) sampled at 1 cm^-1 around the     *)
(* band center.                                                               *)

\* 2h+1 samples at 1 cm^-1 steps around 10 cm^-1
SampleGrid(h) == [k \in 1 .. 2 * h + 1 |-> 1000 + (k - h - 1) * 100]

\* noiseless peak on the grid x
SyntheticWindow(x, center, sigma, amp, baseline) ==
    LET g == gaussian(x, center, sigma)
    IN  [k \in DOMAIN x |-> baseline + (amp * g[k]) \div 100]

\* a stored curve of n points, not a gaussian: a triangle
StoredCurve(n) == [k \in 1 .. n |-> IF 2 * k = n + 1 THEN 100 ELSE 30]

RawRoles == {"must_have", "must-not", "watch"}
RawShapes == {None, Some("gaussian"), Some("PseudoVoigt"), Some("template"),
              Some("voigt")}
RawEtas == {None, Some(50), Some(150)}
FitLims(amp_min, amp_max) ==
    [amp_min |-> amp_min, amp_max |-> amp_max, sigma_min |-> None, sigma_max |-> None]

\* no limits, an upper limit, a lower limit, both, and both the wrong way round
RawFitLims ==
    {None, Some(FitLims(None, Some(50))), Some(FitLims(Some(150), None)),
     Some(FitLims(Some(150), Some(250))), Some(FitLims(Some(150), Some(50)))}

\* template values for a window of n samples: none, a list of n or n + 1 points as
\* JSON gives, an ndarray of n points as Python code can give, an ndarray of zeros
RawTemplates(n) ==
    {None, Some([type |-> "list", data |-> StoredCurve(n)]),
     Some([type |-> "list", data |-> StoredCurve(n + 1)]),
     Some([type |-> "ndarray", data |-> StoredCurve(n)]),
     Some([type |-> "ndarray", data |-> [k \in 1 .. n |-> 0]])}

\* a recipe file is JSON: it holds no ndarray
TemplatesVia(via, n) ==
    {t \in RawTemplates(n) :
        IF via = "load_recipe" /\ t # None THEN ValueOf(t).type = "list" ELSE TRUE}

BandEntry(role, shape, eta, template, fit_lims, sigma, h) ==
    [name |-> "A", center |-> 1000, tol |-> 50, sigma |-> sigma, role |-> role,
     window_range |-> [min |-> 1000 - 100 * h, max |-> 1000 + 100 * h],
     fit_lims |-> fit_lims, shape |-> shape, eta |-> eta, template |-> template]

InitBand ==
    /\ \E h \in 2 .. MaxHalf, sigma \in {50, 100, 300}, a \in 1 .. MaxAmp,
          baseline \in {0, 10}, via \in {"load_recipe", "BandConfig"},
          role \in RawRoles, shape \in RawShapes, eta \in RawEtas,
          fit_lims \in RawFitLims :
       \E template \in TemplatesVia(via, 2 * h + 1) :
          /\ fit_in = [via |-> via,
                       entry |-> BandEntry(role, shape, eta, template, fit_lims, sigma, h),
                       amp |-> 100 * a, baseline |-> baseline,
                       x |-> SampleGrid(h),
                       y |-> SyntheticWindow(SampleGrid(h), 1000, sigma, 100 * a, baseline)]
    /\ fit_out = NoCall
    /\ snr_in = NoCall
    /\ snr_out = NoCall
    /\ lbl_in = NoCall
    /\ lbl_out = NoCall
    /\ agg_in = <<>>
    /\ agg_out = NoCall
    /\ PipeIdle
    /\ pc = "band"

\* load_recipe -> _recipe_from_dict -> _band_from_dict(entry)
LoadBand ==
    /\ pc = "band"
    /\ fit_in.via = "load_recipe"
    /\ fit_out' = [op |-> "band", band |-> band_from_dict(fit_in.entry)]
    /\ pc' = "fit"
    /\ UNCHANGED <<lbl_in, lbl_out, agg_in, agg_out, fit_in, snr_in, snr_out>>
    /\ UNCHANGED pipe_vars

\* BandConfig(...) built in code, as the tests' make_simple_band does
MakeBand ==
    /\ pc = "band"
    /\ fit_in.via = "BandConfig"
    /\ fit_out' = [op |-> "band", band |-> band_direct(fit_in.entry)]
    /\ pc' = "fit"
    /\ UNCHANGED <<lbl_in, lbl_out, agg_in, agg_out, fit_in, snr_in, snr_out>>
    /\ UNCHANGED pipe_vars

\* g = _peak_template(x, band); rmse = _compute_rmse(nu, intensity, band)
FitBand ==
    /\ pc = "fit"
    /\ LET band == fit_out.band
           t == peak_template(fit_in.x, band)
           r == compute_rmse(fit_in.x, fit_in.y, band)
       IN  fit_out' = [op |-> "fit", band |-> band, exc |-> r.exc,
                       template |-> t.val, rmse |-> r.val,
                       amp_hat |-> IF r.exc = NoExc
                                   THEN fit_amplitude(fit_in.x, fit_in.y, band) ELSE 0]
    /\ pc' = "done"
    /\ UNCHANGED <<lbl_in, lbl_out, agg_in, agg_out, fit_in, snr_in, snr_out>>
    /\ UNCHANGED pipe_vars

NextBand == LoadBand \/ MakeBand \/ FitBand

SpecBand == InitBand /\ [][NextBand]_vars

----------------------------------------------------------------------------
(* Specification SpecSnr: _compute_snr applied to windows of intensities      *)
(* counted in units of 1e-10, down to deviations below 1e-9.                  *)

\* intensities 0, 1e-10, 3e-10 and 5e-9
SnrLevels == {0, 1, 3, 50}

InitSnr ==
    /\ \E n \in 0 .. MaxSnrLen : snr_in \in [1 .. n -> SnrLevels]
    /\ snr_out = NoCall
    /\ lbl_in = NoCall
    /\ lbl_out = NoCall
    /\ agg_in = <<>>
    /\ agg_out = NoCall
    /\ fit_in = NoCall
    /\ fit_out = NoCall
    /\ PipeIdle
    /\ pc = "call"

\* snr = _compute_snr(w_I)
SnrCall ==
    /\ pc = "call"
    /\ snr_out' = compute_snr_fine(snr_in)
    /\ pc' = "done"
    /\ UNCHANGED <<lbl_in, lbl_out, agg_in, agg_out, fit_in, fit_out, snr_in>>
    /\ UNCHANGED pipe_vars

NextSnr == SnrCall

SpecSnr == InitSnr /\ [][NextSnr]_vars

----------------------------------------------------------------------------
(* Claims on make_band_label (SpecLabel) *)

LabelDone == pc = "done" /\ lbl_out.op = "label"

\* C2: similarity < kappa_min always yields OOD, whatever the role, offset, SNR,
\* RMSE and confidence, also when other thresholds are violated at the same time.
C2_OodDominates ==
    (LabelDone /\ Lt(lbl_in.kappa, lbl_in.kappa_min)) => lbl_out.label = OOD

C2_Witness ==
    /\ LabelDone
    /\ Lt(lbl_in.kappa, lbl_in.kappa_min)
    /\ Lt(lbl_in.snr, lbl_in.snr_min)
    /\ Lt(lbl_in.confidence, lbl_in.tau)
    /\ lbl_in.role = "must-not"
    /\ lbl_out.label = OOD

MeetsAllButOffset(a) ==
    /\ Ge(a.kappa, a.kappa_min)
    /\ Ge(a.snr, a.snr_min)
    /\ Le(a.rmse, a.epsilon)
    /\ Ge(a.confidence, a.tau)

\* C3: a must-not band meeting similarity, SNR, RMSE and confidence thresholds is
\* MUST_NOT_HIT whether or not |offset| <= tol; a must-not band is never PEAK_OK or
\* PEAK_DRIFTED; MUST_NOT_HIT is never produced for another role.
C3_MustNotOverride ==
    LabelDone =>
        /\ (lbl_in.role = "must-not" /\ MeetsAllButOffset(lbl_in))
              => lbl_out.label = MUST_NOT_HIT
        /\ lbl_in.role = "must-not" => lbl_out.label \notin {PEAK_OK, PEAK_DRIFTED}
        /\ lbl_out.label = MUST_NOT_HIT => lbl_in.role = "must-not"

C3_Witness ==
    /\ LabelDone
    /\ lbl_in.role = "must-not"
    /\ MeetsAllButOffset(lbl_in)
    /\ Gt(Abs(lbl_in.delta_nu), lbl_in.tol)
    /\ lbl_out.label = MUST_NOT_HIT

\* C4: with similarity >= kappa_min the label is BAD_QUALITY iff SNR < snr_min or
\* RMSE > epsilon; otherwise NO_PEAK iff confidence < tau; otherwise PEAK_DRIFTED iff
\* |offset| > tol, else PEAK_OK (MUST_NOT_HIT in their place for a must-not band);
\* every input yields one of the six labels.
C4_FirstMatchWins ==
    LabelDone =>
        LET a == lbl_in
            bad == Lt(a.snr, a.snr_min) \/ Gt(a.rmse, a.epsilon)
            nopeak == Lt(a.confidence, a.tau)
            drift == Gt(Abs(a.delta_nu), a.tol)
            l == lbl_out.label
        IN  /\ l \in BandLabel
            /\ Ge(a.kappa, a.kappa_min) =>
                  /\ (l = BAD_QUALITY) <=> bad
                  /\ ~bad => ((l = NO_PEAK) <=> nopeak)
                  /\ (~bad /\ ~nopeak /\ a.role # "must-not") =>
                        /\ (l = PEAK_DRIFTED) <=> drift
                        /\ (l = PEAK_OK) <=> ~drift
                  /\ (~bad /\ ~nopeak /\ a.role = "must-not") => l = MUST_NOT_HIT

C4_Witness ==
    /\ LabelDone
    /\ Ge(lbl_in.kappa, lbl_in.kappa_min)
    /\ Lt(lbl_in.snr, lbl_in.snr_min)
    /\ Lt(lbl_in.confidence, lbl_in.tau)
    /\ Gt(Abs(lbl_in.delta_nu), lbl_in.tol)
    /\ lbl_out.label = BAD_QUALITY

----------------------------------------------------------------------------
(* Claims on aggregate_sample (SpecAgg) *)

AggDone == pc = "done" /\ "decision" \in DOMAIN agg_out

IsRedTrigger(br) ==
    \/ br.band.role = "must-not" /\ br.label = MUST_NOT_HIT
    \/ br.band.role = "must-have" /\ br.label \in {NO_PEAK, OOD}

IsAmberTrigger(br) == br.label \in {PEAK_DRIFTED, BAD_QUALITY, OOD}

RedIdx(brs) == {i \in DOMAIN brs : IsRedTrigger(brs[i])}
AmberIdx(brs) == {i \in DOMAIN brs : IsAmberTrigger(brs[i])}

\* position, among the reasons, of the reason for band i when T is the set of
\* bands that get one
RankIn(T, i) == Cardinality({j \in T : j <= i})

\* C1: RED iff some band is (must-not, MUST_NOT_HIT) or (must-have, NO_PEAK/OOD);
\* otherwise AMBER iff some band is PEAK_DRIFTED, BAD_QUALITY or OOD; otherwise GREEN.
C1_DecisionRule ==
    AggDone =>
        agg_out.decision =
            IF RedIdx(agg_in) # {} THEN "RED"
            ELSE IF AmberIdx(agg_in) # {} THEN "AMBER"
            ELSE "GREEN"

C1_Witness ==
    /\ AggDone
    /\ agg_out.decision = "RED"
    /\ Len(agg_in) = 3
    /\ agg_in[2].band.role = "must-not" /\ agg_in[2].label = MUST_NOT_HIT
    /\ agg_in[1].label = PEAK_OK /\ agg_in[3].label = PEAK_OK

\* C6: when RED, reasons holds exactly one reason per RED-triggering band, in band
\* order, and no AMBER reason even when other bands carry AMBER-triggering labels.
C6_RedReasonsComplete ==
    (AggDone /\ agg_out.decision = "RED") =>
        LET T == RedIdx(agg_in)
            rs == agg_out.reasons
        IN  /\ Len(rs) = Cardinality(T)
            /\ \A i \in T :
                  LET r == rs[RankIn(T, i)]
                      br == agg_in[i]
                  IN  /\ r.name = br.band.name
                      /\ IF br.band.role = "must-not"
                         THEN r.kind = "must-not band hit"
                         ELSE r.kind = "must-have band is" /\ r.label = br.label
            /\ \A k \in DOMAIN rs : rs[k].kind # "band is"

C6_Witness ==
    /\ AggDone
    /\ agg_out.decision = "RED"
    /\ Len(agg_in) = 3
    /\ IsRedTrigger(agg_in[1]) /\ IsRedTrigger(agg_in[3])
    /\ agg_in[2].label = BAD_QUALITY
    /\ Len(agg_out.reasons) = 2

\* C7: when not RED, reasons holds exactly one entry per band labelled PEAK_DRIFTED,
\* BAD_QUALITY or OOD, in band order, and the decision is AMBER iff that list is
\* non-empty; for every result the decision is GREEN iff reasons is empty.
C7_AmberReasons ==
    AggDone =>
        LET T == AmberIdx(agg_in)
            rs == agg_out.reasons
        IN  /\ agg_out.decision # "RED" =>
                  /\ Len(rs) = Cardinality(T)
                  /\ \A i \in T :
                        LET r == rs[RankIn(T, i)]
                        IN  /\ r.kind = "band is"
                            /\ r.name = agg_in[i].band.name
                            /\ r.label = agg_in[i].label
                  /\ (agg_out.decision = "AMBER") <=> (rs # <<>>)
            /\ (agg_out.decision = "GREEN") <=> (rs = <<>>)

C7_Witness ==
    /\ AggDone
    /\ agg_out.decision = "AMBER"
    /\ Len(agg_in) = 3
    /\ agg_in[1].label = PEAK_DRIFTED
    /\ agg_in[2].label = PEAK_OK
    /\ agg_in[3].label = OOD
    /\ Len(agg_out.reasons) = 2

----------------------------------------------------------------------------
(* Claims on run_qc_on_spectrum and the Classifier (Spec) *)

Returned == pc = "returned" /\ Len(results) >= 1

LastResult == results[Len(results)]

\* C5: when a band is labelled BAD_QUALITY and the sample decision is AMBER, the
\* sample-level reasons contain a reason naming the violated threshold ('SNR<' or
\* 'RMSE>').
C5_SampleReasonsNameBreach ==
    (/\ Returned
     /\ LastResult.decision = "AMBER"
     /\ \E k \in DOMAIN LastResult.bands : LastResult.bands[k].label = BAD_QUALITY)
    => \E k \in DOMAIN LastResult.reasons :
          \/ Mentions(LastResult.reasons[k], "SNR<")
          \/ Mentions(LastResult.reasons[k], "RMSE>")

\* C8: the returned SampleResult holds exactly one BandResult per band of the recipe,
\* in the recipe's order, for any number of bands, zero included.
C8_BandOrder ==
    \A n \in DOMAIN results :
        /\ Len(results[n].bands) = Len(run_recipe.bands)
        /\ \A k \in DOMAIN results[n].bands :
              results[n].bands[k].band = run_recipe.bands[k]

C8_Witness ==
    /\ Returned
    /\ Len(run_recipe.bands) = 2
    /\ run_recipe.bands[1].role # run_recipe.bands[2].role
    /\ LastResult.bands[1].label # LastResult.bands[2].label

BadCtorCall(a) ==
    LET m == Lower(a.method)
    IN  \/ m \notin {"dummy", "rbf", "qsvm"}
        \/ m = "rbf" /\ (a.model = None \/ a.svc = None)
        \/ m = "qsvm" /\ (a.model = None \/ a.client = None)

\* C10: construction fails, before any spectrum is processed, on an unsupported
\* backend name, an rbf backend without model or runtime support, a qsvm backend
\* without model id or client; a constructed Classifier has a supported backend with
\* its collaborators, and predict never fails for a configuration reason.
C10_FailFast ==
    /\ ctor_args # NoCall => ((pc = "ctor_failed") <=> BadCtorCall(ctor_args))
    /\ pc = "ctor_failed" =>
          /\ clf = NoCall /\ error # NoExc
          /\ run_recipe = NoCall /\ results = <<>> /\ sent = <<>>
    /\ clf # NoCall =>
          /\ clf.method \in {"dummy", "rbf", "qsvm"}
          /\ clf.method = "rbf" => clf.model # None
          /\ clf.method = "qsvm" => (clf.model # None /\ clf.client # None)
    /\ error \notin ConfigErrors

C10_Witness ==
    /\ pc = "ctor_failed"
    /\ ctor_args.method = "qsvm"
    /\ ctor_args.model # None
    /\ ctor_args.client = None
    /\ error = "ValueError: qsvm model and client"

----------------------------------------------------------------------------
(* Claims on the remote backend (Spec) *)

\* the band the comprehension is about to evaluate
EvalPending == pc = "loop" /\ idx <= Len(run_recipe.bands)

\* the request evaluate_band makes for a band, given the window it cuts
RequestFor(band) ==
    [model_id |-> ValueOf(clf.model), band |-> band.name,
     features |-> tolist(extract_window(nu, intensity, band).I)]

\* the band's metrics are computed without an exception, so predict is reached
ReachesPredict(band) ==
    LET w == extract_window(nu, intensity, band)
    IN  compute_rmse(w.nu, w.I, band).exc = NoExc

\* C11: with the qsvm backend every band evaluation calls client.predict exactly
\* once, also when the call raises; a raising call ends the run with that
\* exception, without a SampleResult and without evaluating a later band.
C11_NoRetryPropagates ==
    [][/\ (EvalPending /\ clf.method = "qsvm") =>
            LET band == run_recipe.bands[idx]
            IN  /\ ReachesPredict(band) => sent' = Append(sent, RequestFor(band))
                /\ (/\ ReachesPredict(band)
                    /\ client_predict(ValueOf(clf.client), RequestFor(band)).kind = "raise")
                   => /\ pc' = "raised"
                      /\ error' = "RemoteBackendError"
                      /\ results' = results
                      /\ run_bands' = run_bands
       /\ pc = "raised" =>
            /\ results' = results
            /\ sent' = sent
            /\ run_bands' = <<>>]_vars

C11_Witness ==
    /\ pc = "raised"
    /\ error = "RemoteBackendError"
    /\ clf.method = "qsvm"
    /\ Len(run_recipe.bands) = 2
    /\ idx = 1
    /\ Len(sent) = 1
    /\ results = <<>>

----------------------------------------------------------------------------
(* Claims on the dummy backend and on empty windows (Spec) *)

Constructed == "method" \in DOMAIN clf

WindowOf(band) == extract_window(nu, intensity, band)

\* C12: the dummy backend answers confidence = clamp(max(features), 0, 1), 0 for an
\* empty vector, and similarity 1.0 in every case, the empty vector included; a
\* band evaluated with it is never labelled OOD.
C12_DummySimilarityOne ==
    (Constructed /\ clf.method = "dummy") =>
        \A k \in DOMAIN run_bands :
            LET br == run_bands[k]
                f == WindowOf(br.band).I
            IN  /\ br.metrics.confidence =
                       (IF Len(f) = 0 THEN 0 ELSE Clip(f[ArgMax(f)], 0, 100))
                /\ br.metrics.kappa = 100
                /\ br.label # OOD

EmptyWindow(band) == Len(WindowOf(band).nu) = 0

\* exceptions that come from the classifier backend, not from the window
BackendErrors == {"RemoteBackendError", "AttributeError"}

----------------------------------------------------------------------------
(* Claims on the template fit and on recipe loading (SpecBand) *)

FitDone == pc = "done" /\ fit_out.op = "fit"

\* C15: for a gaussian band without fit limits and a noiseless window
\* baseline + amp * gaussian(band.center, band.sigma), the fit recovers amp and the
\* RMSE is 0 within 0.01, whatever the number of samples and the width of the peak
\* relative to the window.
C15_GaussianFitRecovers ==
    (FitDone /\ fit_out.band.shape = "gaussian" /\ fit_out.band.fit_lims = None) =>
        /\ fit_out.exc = NoExc
        /\ Abs(fit_out.amp_hat - fit_in.amp) <= 1
        /\ fit_out.rmse <= 1

BandMade == pc \in {"fit", "done"} /\ fit_out.op \in {"band", "fit"}

\* C16: a band that load_recipe makes from an entry whose role is written
\* 'must_have' has BandConfig.role = 'must_have'.
C16_RoleKeptAsWritten ==
    (BandMade /\ fit_in.via = "load_recipe" /\ fit_in.entry.role = "must_have") =>
        fit_out.band.role = "must_have"

----------------------------------------------------------------------------
(* Claims on shared state (Spec) and on band-level reasons (SpecLabel) *)

\* what run_qc_on_spectrum returns for the spectrum, recipe and classifier at hand
\* when every band evaluates
FreshResult ==
    aggregate_sample(run_recipe,
        [k \in DOMAIN run_recipe.bands |->
            evaluate_band(nu, intensity, run_recipe.bands[k], run_recipe, clf).val])

CountKind(rs, kind) == Cardinality({k \in DOMAIN rs : rs[k].kind = kind})

OneIff(rs, kind, cond) == CountKind(rs, kind) = (IF cond THEN 1 ELSE 0)

\* C18: BandResult.reasons holds one reason per violated threshold, whichever rule
\* decided the label: similarity < kappa_min, SNR < snr_min, RMSE > epsilon,
\* |offset| > tol with a defined offset, confidence < tau; the must-not reason is
\* there iff the label is MUST_NOT_HIT; there is no other reason.
C18_ReasonPerViolation ==
    LabelDone =>
        LET a == lbl_in
            rs == lbl_out.reasons
            drift == ~IsNaN(a.delta_nu) /\ Gt(Abs(a.delta_nu), a.tol)
            hit == lbl_out.label = MUST_NOT_HIT
        IN  /\ OneIff(rs, "kappa<", Lt(a.kappa, a.kappa_min))
            /\ OneIff(rs, "SNR<", Lt(a.snr, a.snr_min))
            /\ OneIff(rs, "RMSE>", Gt(a.rmse, a.epsilon))
            /\ OneIff(rs, "|dnu|>", drift)
            /\ OneIff(rs, "conf<", Lt(a.confidence, a.tau))
            /\ OneIff(rs, "must-not band appears as peak", hit)
            /\ \A k \in DOMAIN rs :
                  rs[k].kind \in {"kappa<", "SNR<", "RMSE>", "|dnu|>", "conf<",
                                  "must-not band appears as peak"}

C18_Witness ==
    /\ LabelDone
    /\ lbl_out.label = OOD
    /\ Len(lbl_out.reasons) = 5
    /\ lbl_in.role = "must-not"

----------------------------------------------------------------------------
(* Claims on the band shapes (Spec, SpecBand) *)

\* C19: a pseudovoigt band whose eta is not configured is fitted with eta = 0.5 and
\* evaluate_band returns its BandResult without raising.
C19_EtaDefaultsToHalf ==
    /\ ~(pc = "raised" /\ error = "TypeError")
    /\ \A k \in DOMAIN run_bands :
          LET br == run_bands[k]
              w == WindowOf(br.band)
          IN  (br.band.shape = "pseudovoigt" /\ br.band.eta = None /\ ~EmptyWindow(br.band))
              => br.metrics.rmse =
                    compute_rmse(w.nu, w.I, [br.band EXCEPT !.eta = Some(50)]).val

\* C20: a template band is fitted with its stored curve whenever the curve has as
\* many points as the window has samples, a curve stored as a list included, and
\* with the gaussian(center, sigma) template otherwise; a band of unknown shape is
\* fitted with the gaussian template.
C20_StoredCurveUsed ==
    (FitDone /\ fit_out.exc = NoExc) =>
        LET band == fit_out.band
            g == gaussian(fit_in.x, band.center, band.sigma)
        IN  /\ band.shape = "template" =>
                  fit_out.template =
                     (IF band.template = None THEN g
                      ELSE IF Len(ValueOf(band.template).data) = Len(fit_in.x)
                           THEN ValueOf(band.template).data ELSE g)
            /\ band.shape \notin {"gaussian", "pseudovoigt", "template"} =>
                  fit_out.template = g

----------------------------------------------------------------------------
(* Claims on _compute_snr (SpecSnr) *)

SnrDone == pc = "done" /\ "snr" \in DOMAIN snr_out

\* no sample of the window lies above the window's median
NoneAboveMedian(w) == \A k \in DOMAIN w : w[k] <= Median(w)

\* C21 as stated: the SNR is non-negative, 0 for an empty window or when no sample
\* exceeds the median, and otherwise the peak residual divided by a noise scale
\* that is never smaller than 1e-9.
C21_NoiseFloored ==
    SnrDone =>
        /\ snr_out.snr >= 0
        /\ (Len(snr_in) = 0 \/ NoneAboveMedian(snr_in)) => snr_out.snr = 0
        /\ (Len(snr_in) > 0 /\ ~NoneAboveMedian(snr_in)) =>
              /\ snr_out.noise_std # None
              /\ ValueOf(snr_out.noise_std) >= 10000 * TinyNoise

\* C21, amended: the SNR is non-negative, 0 for an empty window or when no sample
\* exceeds the median, and otherwise the peak residual divided by a positive noise
\* scale: 1.4826 * MAD of the noise sample when that is positive, however small,
\* and 1e-9 only when it is 0.
C21_NoiseZeroGuarded ==
    SnrDone =>
        /\ snr_out.snr >= 0
        /\ (Len(snr_in) = 0 \/ NoneAboveMedian(snr_in)) => snr_out.snr = 0
        /\ (Len(snr_in) > 0 /\ ~NoneAboveMedian(snr_in)) =>
              LET mad == MadExact(snr_terms(snr_in).dev)
              IN  /\ snr_out.noise_std # None
                  /\ ValueOf(snr_out.noise_std) > 0
                  /\ mad > 0 => ValueOf(snr_out.noise_std) = mad
                  /\ mad = 0 => ValueOf(snr_out.noise_std) = 10000 * TinyNoise
                  /\ snr_out.snr =
                        (snr_out.peak_height * 10000 * 100) \div ValueOf(snr_out.noise_std)

C21_Witness ==
    /\ SnrDone
    /\ Len(snr_in) = 5
    /\ snr_out.noise_std # None
    /\ ValueOf(snr_out.noise_std) < 10000 * TinyNoise
    /\ snr_out.snr > 0

----------------------------------------------------------------------------
(* Claims on the fitted amplitude (SpecBand) *)

----------------------------------------------------------------------------
(* Claims on the label of an empty window (Spec) *)

\* answers a classifier can give: low, high, undefined
AnyAnswer == {0, 100, NaN}

\* thresholds other than the recipe's own: RMSE limits below and above the 1.0 of an
\* empty window, SNR limits small and large
AnyEpsilon == {50, 200}
AnySnrMin == {1, 100}

\* C23: with snr_min > 0 a band whose window is empty is labelled OOD or BAD_QUALITY
\* and nothing else, whatever confidence and similarity the classifier returns,
\* whatever the role and the RMSE limit; an empty-window must-not band is never
\* reported as hit in a SampleResult.
C23_EmptyWindowNeverPeak ==
    /\ \A k \in DOMAIN run_bands :
          LET br == run_bands[k]
              mt == br.metrics
          IN  EmptyWindow(br.band) =>
                /\ br.label \in {OOD, BAD_QUALITY}
                /\ \A role \in Roles, confidence \in AnyAnswer, kappa \in AnyAnswer,
                      epsilon \in AnyEpsilon, snr_min \in AnySnrMin :
                      make_band_label([br.band EXCEPT !.role = role],
                                      [run_recipe EXCEPT !.epsilon = epsilon,
                                                         !.snr_min = snr_min],
                                      mt.delta_nu, mt.snr, mt.rmse, confidence, kappa)
                         \in {OOD, BAD_QUALITY}
    /\ \A n \in DOMAIN results :
          \A j \in DOMAIN results[n].bands :
              EmptyWindow(results[n].bands[j].band) =>
                  \A q \in DOMAIN results[n].reasons :
                      ~(/\ results[n].reasons[q].kind = "must-not band hit"
                        /\ results[n].reasons[q].name = results[n].bands[j].band.name)

C23_Witness ==
    /\ Returned
    /\ Len(run_bands) = 1
    /\ run_bands[1].band.role = "must-not"
    /\ EmptyWindow(run_bands[1].band)
    /\ run_bands[1].metrics.confidence = 90
    /\ run_bands[1].metrics.kappa = 100
    /\ run_bands[1].label = BAD_QUALITY
    /\ LastResult.decision = "AMBER"

====
